---------------------------- MODULE Spec2Model ----------------------------
(***************************************************************************)
(* A model of the SPIFFE Workload API shim (package shimserver and the     *)
(* interceptors of cmd/workload-api-shim): the credential decoders, the    *)
(* three response builders, the rotation watcher with its debounce timer,  *)
(* the broadcaster and the three streaming handlers.                       *)
(*                                                                         *)
(* Byte strings are sequences of symbols: one symbol stands for one DER    *)
(* structure (a certificate, a key in one encoding) or for bytes that are  *)
(* no such structure.  Text strings that the code builds by concatenation  *)
(* are tuples of their parts.                                              *)
(***************************************************************************)
EXTENDS Integers, Sequences, FiniteSets, TLC

(***************************************************************************)
(* The credential directory.                                               *)
(***************************************************************************)
CertFile == "certificates.pem"
KeyFile == "private_key.pem"
CAFile == "ca_certificates.pem"
TBFile == "trust_bundles.json"
FileNames == {CertFile, KeyFile, CAFile, TBFile}

\* A file that os.ReadFile cannot read.
Absent == [exists |-> FALSE, text |-> <<>>]
\* A readable PEM file: its text is a sequence of items, each a well-formed
\* PEM block or a stretch of text that is none.
PemFile(items) == [exists |-> TRUE, text |-> items]
Block(t, b) == [pem |-> TRUE, type |-> t, bytes |-> b]
Junk == [pem |-> FALSE, type |-> "", bytes |-> <<>>]
\* A readable trust_bundles.json: text json.Unmarshal rejects, or a document.
NoDoc == [d \in {} |-> <<>>]
BadJSON == [exists |-> TRUE, json |-> FALSE, doc |-> NoDoc]
JSONFile(d) == [exists |-> TRUE, json |-> TRUE, doc |-> d]
AbsentJSON == [exists |-> FALSE, json |-> FALSE, doc |-> NoDoc]
\* A key of the document: a JSON object, here a record of its members.
TrustKey(use, x5c) == [use |-> use, kty |-> "EC", x5c |-> x5c]
\* Keys with members a signing key has: a key identifier, an RSA modulus
\* and exponent.
ECKey(use, kid) ==
  [use |-> use, kty |-> "EC", crv |-> "P-256", x |-> "x1", y |-> "y1", kid |-> kid]
RSAKey(use, kid) == [use |-> use, kty |-> "RSA", n |-> "n1", e |-> "AQAB", kid |-> kid]

(***************************************************************************)
(* Library functions the decoders call, by what they do on the symbols.    *)
(***************************************************************************)
URI(host, path) == [Scheme |-> "spiffe", Host |-> host, Path |-> path]
URIString(u) == <<u.Scheme, "://", u.Host, u.Path>>

\* x509.ParseCertificate: exactly one certificate structure, nothing else.
ParseCertificate(der) ==
  IF Len(der) # 1 THEN [ok |-> FALSE, URIs |-> <<>>]
  ELSE CASE der[1] = "leafA" -> [ok |-> TRUE, URIs |-> <<URI("example.org", "/workload")>>]
         [] der[1] = "leafB" -> [ok |-> TRUE, URIs |-> <<URI("example.org", "/rotated")>>]
         [] der[1] = "leafO" -> [ok |-> TRUE, URIs |-> <<URI("other.org", "/workload")>>]
         [] der[1] = "leaf2" -> [ok |-> TRUE, URIs |-> <<URI("example.org", "/workload"),
                                                          URI("other.org", "/alias")>>]
         [] der[1] = "leafN" -> [ok |-> TRUE, URIs |-> <<>>]
         [] der[1] \in {"caL", "caL2", "caO", "caP"} -> [ok |-> TRUE, URIs |-> <<>>]
         [] OTHER -> [ok |-> FALSE, URIs |-> <<>>]

\* x509.ParseECPrivateKey: a SEC 1 structure.
ParseECPrivateKey(der) ==
  IF Len(der) # 1 THEN [ok |-> FALSE, key |-> ""]
  ELSE CASE der[1] = "sec1:k1" -> [ok |-> TRUE, key |-> "k1"]
         [] der[1] = "sec1:k2" -> [ok |-> TRUE, key |-> "k2"]
         [] OTHER -> [ok |-> FALSE, key |-> ""]

\* x509.ParsePKCS1PrivateKey: a PKCS #1 structure.
ParsePKCS1PrivateKey(der) ==
  IF Len(der) # 1 THEN [ok |-> FALSE, key |-> ""]
  ELSE CASE der[1] = "pkcs1:r1" -> [ok |-> TRUE, key |-> "r1"]
         [] OTHER -> [ok |-> FALSE, key |-> ""]

\* x509.MarshalPKCS8PrivateKey of a parsed EC or RSA key.
MarshalPKCS8PrivateKey(key) ==
  CASE key = "k1" -> <<"pkcs8:k1">>
    [] key = "k2" -> <<"pkcs8:k2">>
    [] key = "r1" -> <<"pkcs8:r1">>

\* base64.StdEncoding.DecodeString.
Base64Decode(s) ==
  CASE s = "Y2FP" -> [ok |-> TRUE, der |-> <<"caO">>]
    [] s = "Y2FQ" -> [ok |-> TRUE, der |-> <<"caP">>]
    [] s = "Y2FM" -> [ok |-> TRUE, der |-> <<"caL2">>]
    [] s = "" -> [ok |-> TRUE, der |-> <<>>]
    [] OTHER -> [ok |-> FALSE, der |-> <<>>]

(***************************************************************************)
(* The credential decoders.                                                *)
(***************************************************************************)
\* pem.Decode skips what is no block and returns the next block; the loop of
\* loadPEMDERs therefore collects the bytes of every block of the file.
RECURSIVE PemBlocks(_)
PemBlocks(items) ==
  IF items = <<>> THEN <<>>
  ELSE IF Head(items).pem THEN <<Head(items)>> \o PemBlocks(Tail(items))
       ELSE PemBlocks(Tail(items))

RECURSIVE BlockBytes(_)
BlockBytes(blocks) ==
  IF blocks = <<>> THEN <<>>
  ELSE <<Head(blocks).bytes>> \o BlockBytes(Tail(blocks))

loadPEMDERs(file) ==
  IF ~file.exists THEN [ok |-> FALSE, err |-> "read", ders |-> <<>>]
  ELSE [ok |-> TRUE, err |-> "", ders |-> BlockBytes(PemBlocks(file.text))]

loadPrivateKeyPKCS8DER(file) ==
  IF ~file.exists THEN [ok |-> FALSE, err |-> "read", der |-> <<>>]
  ELSE LET blocks == PemBlocks(file.text) IN
    IF blocks = <<>> THEN [ok |-> FALSE, err |-> "no PEM block", der |-> <<>>]
    ELSE LET block == blocks[1] IN
      CASE block.type = "PRIVATE KEY" ->
             [ok |-> TRUE, err |-> "", der |-> block.bytes]
        [] block.type = "EC PRIVATE KEY" ->
             LET k == ParseECPrivateKey(block.bytes) IN
             IF ~k.ok THEN [ok |-> FALSE, err |-> "parse EC private key", der |-> <<>>]
             ELSE [ok |-> TRUE, err |-> "", der |-> MarshalPKCS8PrivateKey(k.key)]
        [] block.type = "RSA PRIVATE KEY" ->
             LET k == ParsePKCS1PrivateKey(block.bytes) IN
             IF ~k.ok THEN [ok |-> FALSE, err |-> "parse RSA private key", der |-> <<>>]
             ELSE [ok |-> TRUE, err |-> "", der |-> MarshalPKCS8PrivateKey(k.key)]
        [] OTHER ->
             [ok |-> FALSE, err |-> "unsupported PEM block type", der |-> <<>>]

\* A member of a JSON object, or the zero value of the field it is read into.
Member(obj, m, zero) == IF m \in DOMAIN obj THEN obj[m] ELSE zero

\* json.Unmarshal of one key into a trustKey: the six fields of the struct
\* are set from the members they name; every other member is dropped.
UnmarshalKey(obj) ==
  [Use |-> Member(obj, "use", ""), Kty |-> Member(obj, "kty", ""),
   Crv |-> Member(obj, "crv", ""), X |-> Member(obj, "x", ""),
   Y |-> Member(obj, "y", ""), X5C |-> Member(obj, "x5c", <<>>)]

\* json.Marshal of a trustKey: the six fields, none of them omitted.
MarshalKey(key) ==
  [use |-> key.Use, kty |-> key.Kty, crv |-> key.Crv, x |-> key.X, y |-> key.Y,
   x5c |-> key.X5C]

loadTrustBundles(file) ==
  IF ~file.exists THEN [ok |-> FALSE, err |-> "read", TrustDomains |-> NoDoc]
  ELSE IF ~file.json THEN [ok |-> FALSE, err |-> "parse", TrustDomains |-> NoDoc]
  ELSE [ok |-> TRUE, err |-> "",
        TrustDomains |->
          [d \in DOMAIN file.doc |->
             [Keys |-> [i \in 1..Len(file.doc[d].Keys) |-> UnmarshalKey(file.doc[d].Keys[i])]]]]

RECURSIVE concatDERs(_)
concatDERs(ders) ==
  IF ders = <<>> THEN <<>> ELSE Head(ders) \o concatDERs(Tail(ders))


(***************************************************************************)
(* The response builders.  A builder reads its files one after another;    *)
(* rd holds the contents read so far and n their number, and the result    *)
(* says whether the builder has failed, has built its response, or goes on *)
(* to its next read.                                                       *)
(***************************************************************************)
More == [st |-> "more"]
Failed(e) == [st |-> "err", err |-> e]
Built(r) == [st |-> "ok", resp |-> r]

TDKey(domain) == <<"spiffe://", domain>>

\* A variant of buildX509SVIDResponse, not what the program does:
\* a builder that takes a leaf without URI SAN and leaves the id empty.
buildX509SVIDResponse_NoId(rd, n) ==
  LET certs == loadPEMDERs(rd[CertFile]) IN
  IF ~certs.ok THEN Failed("load certificates")
  ELSE IF Len(certs.ders) = 0 THEN Failed("no certificates found")
  ELSE IF n < 2 THEN More
  ELSE LET key == loadPrivateKeyPKCS8DER(rd[KeyFile]) IN
  IF ~key.ok THEN Failed("load private key")
  ELSE IF n < 3 THEN More
  ELSE LET ca == loadPEMDERs(rd[CAFile]) IN
  IF ~ca.ok THEN Failed("load CA certificates")
  ELSE LET leaf == ParseCertificate(certs.ders[1]) IN
  IF ~leaf.ok THEN Failed("parse leaf certificate")
  ELSE Built([SpiffeId |-> IF Len(leaf.URIs) = 0 THEN <<>> ELSE URIString(leaf.URIs[1]),
              X509Svid |-> concatDERs(certs.ders),
              X509SvidKey |-> key.der,
              Bundle |-> concatDERs(ca.ders)])

\* buildX509SVIDResponse reads certificates.pem, private_key.pem, ca_certificates.pem.
buildX509SVIDResponse(rd, n) ==
  LET certs == loadPEMDERs(rd[CertFile]) IN
  IF ~certs.ok THEN Failed("load certificates")
  ELSE IF Len(certs.ders) = 0 THEN Failed("no certificates found")
  ELSE IF n < 2 THEN More
  ELSE LET key == loadPrivateKeyPKCS8DER(rd[KeyFile]) IN
  IF ~key.ok THEN Failed("load private key")
  ELSE IF n < 3 THEN More
  ELSE LET ca == loadPEMDERs(rd[CAFile]) IN
  IF ~ca.ok THEN Failed("load CA certificates")
  ELSE LET leaf == ParseCertificate(certs.ders[1]) IN
  IF ~leaf.ok THEN Failed("parse leaf certificate")
  ELSE IF Len(leaf.URIs) = 0 THEN Failed("leaf certificate has no URI SANs")
  ELSE Built([SpiffeId |-> URIString(leaf.URIs[1]),
              X509Svid |-> concatDERs(certs.ders),
              X509SvidKey |-> key.der,
              Bundle |-> concatDERs(ca.ders)])

\* The x5c elements of one key, decoded in order; ok is FALSE if one does not decode.
RECURSIVE DecodeX5C(_)
DecodeX5C(x5c) ==
  IF x5c = <<>> THEN [ok |-> TRUE, ders |-> <<>>]
  ELSE LET d == Base64Decode(Head(x5c))
           rest == DecodeX5C(Tail(x5c)) IN
       IF ~d.ok THEN [ok |-> FALSE, ders |-> <<>>]
       ELSE IF ~rest.ok THEN rest
       ELSE [ok |-> TRUE, ders |-> <<d.der>> \o rest.ders]

\* A variant of X509KeyDERs, not what the program does:
\* the loop takes the x5c of every key, whatever its use.
RECURSIVE X509KeyDERs_AnyUse(_)
X509KeyDERs_AnyUse(keys) ==
  IF keys = <<>> THEN [ok |-> TRUE, ders |-> <<>>]
  ELSE LET d == DecodeX5C(Head(keys).X5C)
           rest == X509KeyDERs_AnyUse(Tail(keys)) IN
       IF ~d.ok THEN d
       ELSE IF ~rest.ok THEN rest
       ELSE [ok |-> TRUE, ders |-> d.ders \o rest.ders]

\* The inner loop of buildX509BundlesResponse over the keys of one domain.
RECURSIVE X509KeyDERs(_)
X509KeyDERs(keys) ==
  IF keys = <<>> THEN [ok |-> TRUE, ders |-> <<>>]
  ELSE IF Head(keys).Use # "x509-svid" THEN X509KeyDERs(Tail(keys))
  ELSE LET d == DecodeX5C(Head(keys).X5C)
           rest == X509KeyDERs(Tail(keys)) IN
       IF ~d.ok THEN d
       ELSE IF ~rest.ok THEN rest
       ELSE [ok |-> TRUE, ders |-> d.ders \o rest.ders]

\* A variant of SkipLocal, not what the program does:
\* the loop over the domains skips none.
SkipLocal_Never(tdKey, localTD) == FALSE

\* The loop over the domains skips the entry of the local trust domain.
SkipLocal(tdKey, localTD) == tdKey = localTD

\* buildX509BundlesResponse reads certificates.pem, ca_certificates.pem,
\* trust_bundles.json.  The loop over the domains is a loop over a Go map: its
\* order is not fixed, and its result does not depend on it (it fails if any
\* domain that is not skipped fails to decode).
buildX509BundlesResponse(rd, n) ==
  LET certs == loadPEMDERs(rd[CertFile]) IN
  IF ~certs.ok THEN Failed("load certificates")
  ELSE IF Len(certs.ders) = 0 THEN Failed("no certificates found")
  ELSE LET leaf == ParseCertificate(certs.ders[1]) IN
  IF ~leaf.ok THEN Failed("parse leaf certificate")
  ELSE IF Len(leaf.URIs) = 0 THEN Failed("leaf certificate has no URI SANs")
  ELSE IF n < 2 THEN More
  ELSE LET localTD == TDKey(leaf.URIs[1].Host)
           ca == loadPEMDERs(rd[CAFile]) IN
  IF ~ca.ok THEN Failed("load CA certificates")
  ELSE IF n < 3 THEN More
  ELSE LET tb == loadTrustBundles(rd[TBFile]) IN
  IF ~tb.ok THEN Failed("load trust bundles")
  ELSE LET others == {d \in DOMAIN tb.TrustDomains : ~SkipLocal(TDKey(d), localTD)} IN
  IF \E d \in others : ~X509KeyDERs(tb.TrustDomains[d].Keys).ok
  THEN Failed("decode x5c entry")
  ELSE LET fed == {d \in others : Len(X509KeyDERs(tb.TrustDomains[d].Keys).ders) > 0} IN
  Built([Bundles |->
           [td \in {localTD} \cup {TDKey(d) : d \in fed} |->
              IF td[2] \in fed
              THEN concatDERs(X509KeyDERs(tb.TrustDomains[td[2]].Keys).ders)
              ELSE concatDERs(ca.ders)]])

\* The inner loop of buildJWTBundlesResponse: the jwt-svid keys, each as
\* json.Marshal writes it.
RECURSIVE JWTKeys(_)
JWTKeys(keys) ==
  IF keys = <<>> THEN <<>>
  ELSE IF Head(keys).Use # "jwt-svid" THEN JWTKeys(Tail(keys))
  ELSE <<MarshalKey(Head(keys))>> \o JWTKeys(Tail(keys))

\* buildJWTBundlesResponse reads trust_bundles.json only.
buildJWTBundlesResponse(rd, n) ==
  LET tb == loadTrustBundles(rd[TBFile]) IN
  IF ~tb.ok THEN Failed("load trust bundles")
  ELSE LET with == {d \in DOMAIN tb.TrustDomains :
                      Len(JWTKeys(tb.TrustDomains[d].Keys)) > 0} IN
  Built([Bundles |->
           [td \in {TDKey(d) : d \in with} |->
              [keys |-> JWTKeys(tb.TrustDomains[td[2]].Keys)]]])

Kinds == {"svid", "x509", "jwt"}

\* The files a handler's builder reads, in the order it reads them.
ReadOrder(k) ==
  CASE k = "svid" -> <<CertFile, KeyFile, CAFile>>
    [] k = "x509" -> <<CertFile, CAFile, TBFile>>
    [] k = "jwt" -> <<TBFile>>

Builder(k, rd, n) ==
  CASE k = "svid" -> buildX509SVIDResponse(rd, n)
    [] k = "x509" -> buildX509BundlesResponse(rd, n)
    [] k = "jwt" -> buildJWTBundlesResponse(rd, n)

\* A builder run on a directory that does not change while it reads.
BuildAll(k, dir) == Builder(k, dir, Len(ReadOrder(k)))


(***************************************************************************)
(* The interceptors of main.go.  The metadata of a request is a map from   *)
(* header names to the values the request carries for them, or is missing. *)
(***************************************************************************)
workloadHeader == "workload.spiffe.io"

NoMetadata == [ok |-> FALSE, headers |-> [h \in {} |-> <<>>]]
WithHeaders(h) == [ok |-> TRUE, headers |-> h]

\* md.Get(key): the values of the header, none if the request has none.
Get(md, key) == IF key \in DOMAIN md.headers THEN md.headers[key] ELSE <<>>

\* A variant of workloadHeaderStreamInterceptor, not what the program does:
\* an interceptor that lets every call through.
workloadHeaderStreamInterceptor_Open(md) == "handler"

\* Both interceptors: "InvalidArgument", or the call goes on to its handler.
workloadHeaderUnaryInterceptor(md) ==
  IF ~md.ok \/ Len(Get(md, workloadHeader)) = 0 THEN "InvalidArgument" ELSE "handler"
workloadHeaderStreamInterceptor(md) ==
  IF ~md.ok \/ Len(Get(md, workloadHeader)) = 0 THEN "InvalidArgument" ELSE "handler"

\* The requests of the model: no metadata, no header, another header only,
\* and the header with the values true, false and the empty string.
Requests ==
  {NoMetadata,
   WithHeaders([h \in {} |-> <<>>]),
   WithHeaders([h \in {"user-agent"} |-> <<"grpc-go">>]),
   WithHeaders([h \in {workloadHeader} |-> <<"true">>]),
   WithHeaders([h \in {workloadHeader} |-> <<"false">>]),
   WithHeaders([h \in {workloadHeader} |-> <<"">>])}

UnaryOps == {"FetchJWTSVID", "ValidateJWTSVID"}

(***************************************************************************)
(* Bounds of the model.                                                    *)
(***************************************************************************)
\* Streaming calls that may be open at the same time.
NumSessions == 2
\* Writes of the credential issuer over the run.
MaxRot == 2
\* Filesystem events waiting in the watcher's event channel.
MaxQueue == 1
\* Subscriptions made over the run (the values b.next takes).
MaxSubs == 2
\* Timer callbacks that wait for b.mu at the same time.
MaxWait == 1
\* The count of events of one burst is kept up to this number.
MaxBurst == 2
\* The count of payloads sent since a write is kept up to this number.
MaxPushed == 2

Sessions == 1 .. NumSessions

\* make(chan struct{}, 1)
ChanCap == 1

(***************************************************************************)
(* The directory at start-up and what the issuer writes into it.           *)
(***************************************************************************)
CertBlock(sym) == Block("CERTIFICATE", <<sym>>)
Pkcs8Block(sym) == Block("PRIVATE KEY", <<sym>>)

\* The federated document of the end-to-end example: one domain, other.org,
\* holding a jwt-svid key and no x509-svid key.
ExampleDoc == [d \in {"other.org"} |-> [Keys |-> <<TrustKey("jwt-svid", <<>>)>>]]

InitialDir ==
  [f \in FileNames |->
     CASE f = CertFile -> PemFile(<<CertBlock("leafA")>>)
       [] f = KeyFile -> PemFile(<<Pkcs8Block("pkcs8:k1")>>)
       [] f = CAFile -> PemFile(<<CertBlock("caL")>>)
       [] f = TBFile -> JSONFile(ExampleDoc)]

\* What a rotation may leave in a file: the next credential, or a file caught
\* half-written.
RotContent(f) ==
  CASE f = CertFile -> {PemFile(<<CertBlock("leafB")>>), PemFile(<<>>)}
    [] f = KeyFile -> {PemFile(<<Pkcs8Block("pkcs8:k2")>>)}
    [] f = CAFile -> {}
    [] f = TBFile -> {BadJSON}

\* fsnotify.Op: an event carries a set of operations.
Has(event, op) == op \in event
WriteOps == {{"Write"}, {"Create"}}
OtherOps == {{"Chmod"}, {"Remove"}}

(***************************************************************************)
(* The state.                                                              *)
(***************************************************************************)
VARIABLES
  files,      \* the credential directory: file name -> contents
  rot,        \* history: the number of writes of the issuer so far
  events,     \* w.Events: the filesystem events not yet handled
  debounce,   \* the timer the watcher's variable debounce refers to:
              \* "nil", "armed" (not yet expired) or "fired"
  armed,      \* the number of timers armed and neither expired nor stopped
  bwait,      \* timer callbacks that have called broadcast() and wait for b.mu
  mu,         \* b.mu: "free" or "broadcast" (held by a running broadcast())
  todo,       \* the subscriptions the running broadcast() has yet to visit
  subs,       \* b.subs: subscription id -> length of its channel
  next,       \* b.next
  pc,         \* per session: where its handler stands
  kind,       \* per session: which streaming operation it is
  rd,         \* per session: the files its running build has read
  nread,      \* per session: how many files its running build has read
  resp,       \* per session: the response built and not yet sent
  subId,      \* per session: the id subscribe() returned
  cancelled,  \* per session: stream.Context().Done() is closed
  ret,        \* per session: what the handler returned
  last,       \* history, per session: the last payload sent and the write
              \* count its build started from
  asOf,       \* history, per session: the write count when the running
              \* build read its first file
  need,       \* history, per session: the write count at the last
              \* broadcast() called after the session's initial build
  rfail,      \* history, per session: a rebuild failed since the last send
  everSub,    \* history, per session: the handler has called subscribe()
  issued,     \* history: the ids subscribe() has returned so far
  burst,      \* history: write-or-create events handled since the timer
              \* was armed from idle
  outcome,    \* history: what the sends of the running broadcast() have
              \* done so far: a subset of {"sent", "dropped"}
  pushed,     \* history, per session: the payloads it has sent since the
              \* issuer's latest write (0 while the issuer has not written)
  req,        \* history: the metadata of the latest request that went
              \* through an interceptor
  unary,      \* history: the outcome of the latest unary call
  werr        \* history: the watcher has logged an error of w.Errors

dirVars == <<files, rot>>
watchVars == <<events, debounce, armed, burst, werr>>
hubVars == <<bwait, mu, todo, subs, next, outcome>>
sessVars == <<pc, kind, rd, nread, resp, subId, cancelled, ret>>
histVars == <<last, asOf, need, rfail, everSub, issued>>
callVars == <<req, unary>>
vars == <<dirVars, watchVars, hubVars, sessVars, histVars, pushed, callVars>>

NoRead == [f \in FileNames |-> IF f = TBFile THEN AbsentJSON ELSE Absent]
NoResp == [none |-> TRUE]
NoPayload == [resp |-> NoResp, asOf |-> 0]
\* No request has come yet; no unary call has been made yet.
NoRequest == [ok |-> FALSE, headers |-> [h \in {"none"} |-> <<>>]]
NoCall == [op |-> "none", code |-> "none", resp |-> NoResp, read |-> {}]

InitRest ==
  /\ rot = 0
  /\ events = <<>>
  /\ debounce = "nil"
  /\ armed = 0
  /\ burst = 0
  /\ bwait = 0
  /\ mu = "free"
  /\ todo = {}
  /\ outcome = {}
  /\ subs = [i \in {} |-> 0]
  /\ next = 0
  /\ pc = [s \in Sessions |-> "idle"]
  /\ kind = [s \in Sessions |-> "svid"]
  /\ rd = [s \in Sessions |-> NoRead]
  /\ nread = [s \in Sessions |-> 0]
  /\ resp = [s \in Sessions |-> NoResp]
  /\ subId = [s \in Sessions |-> 0]
  /\ cancelled = [s \in Sessions |-> FALSE]
  /\ ret = [s \in Sessions |-> "none"]
  /\ last = [s \in Sessions |-> NoPayload]
  /\ asOf = [s \in Sessions |-> 0]
  /\ need = [s \in Sessions |-> 0]
  /\ rfail = [s \in Sessions |-> FALSE]
  /\ everSub = [s \in Sessions |-> FALSE]
  /\ issued = {}
  /\ pushed = [s \in Sessions |-> 0]
  /\ req = NoRequest
  /\ unary = NoCall
  /\ werr = FALSE


(***************************************************************************)
(* The credential issuer and the filesystem: the environment.              *)
(***************************************************************************)
\* The issuer rewrites one file; the kernel reports a write or a create.
IssuerWrite(f, c, e) ==
  /\ rot < MaxRot
  /\ Len(events) < MaxQueue
  /\ files' = [files EXCEPT ![f] = c]
  /\ rot' = rot + 1
  /\ events' = Append(events, e)
  /\ pushed' = [s \in Sessions |-> 0]
  /\ UNCHANGED <<callVars, debounce, armed, burst, werr, hubVars, sessVars, histVars>>

\* Something else happens in the directory (a chmod, the removal of a
\* temporary file) that leaves the four files as they are.
FsOther(e) ==
  /\ Len(events) < MaxQueue
  /\ events' = Append(events, e)
  /\ pushed' = pushed
  /\ UNCHANGED <<callVars, dirVars, debounce, armed, burst, werr, hubVars, sessVars, histVars>>

(***************************************************************************)
(* The rotation watcher (startWatcher) and its timer.                      *)
(***************************************************************************)
\* A variant of StopTimer, not what the program does:
\* a watcher that arms a new timer and leaves the old one running.
StopTimer_Forget(d, a) == a

\* debounce.Stop(): an armed timer is disarmed, an expired one is left alone.
StopTimer(d, a) == IF d = "armed" THEN a - 1 ELSE a

\* One turn of the watcher's loop on an event.
\* A variant of Watching, not what the program does:
\* a watcher whose goroutine returns when it gets an error.
Watching_UntilError(err) == ~err

\* The loop of the watcher goes on after it has logged an error: the case
\* for w.Errors has no return but the one for a closed channel.
Watching(err) == TRUE

WatcherEvent ==
  /\ Watching(werr)
  /\ events # <<>>
  /\ events' = Tail(events)
  /\ IF Has(Head(events), "Write") \/ Has(Head(events), "Create")
     THEN /\ armed' = (IF debounce # "nil" THEN StopTimer(debounce, armed) ELSE armed) + 1
          /\ debounce' = "armed"
          /\ burst' = IF debounce = "armed"
                      THEN (IF burst < MaxBurst THEN burst + 1 ELSE burst)
                      ELSE 1
     ELSE UNCHANGED <<debounce, armed, burst>>
  /\ pushed' = pushed
  /\ UNCHANGED <<callVars, dirVars, werr, hubVars, sessVars, histVars>>

\* A timer expires: its callback starts and calls broadcast().  The timer is
\* the one debounce refers to (latest) or an older one that is still armed.
TimerFire ==
  /\ armed > 0
  /\ bwait < MaxWait
  /\ \E latest \in BOOLEAN :
       /\ latest => debounce = "armed"
       /\ ~latest => armed > (IF debounce = "armed" THEN 1 ELSE 0)
       /\ debounce' = IF latest THEN "fired" ELSE debounce
       /\ burst' = IF latest THEN 0 ELSE burst
  /\ armed' = armed - 1
  /\ bwait' = bwait + 1
  /\ pushed' = pushed
  /\ UNCHANGED <<callVars, dirVars, events, werr, mu, todo, subs, next, outcome, sessVars,
                 histVars>>

\* A variant of WatcherError, not what the program does:
\* a watcher that calls broadcast() when it gets an error.
WatcherError_Push ==
  /\ bwait < MaxWait
  /\ werr' = TRUE
  /\ bwait' = bwait + 1
  /\ pushed' = pushed
  /\ UNCHANGED <<callVars, dirVars, events, debounce, armed, burst, mu, todo, subs, next,
                 outcome, sessVars, histVars>>

\* case err, ok := <-w.Errors: the watcher logs the error and goes round its
\* loop again.  Neither channel of the fsnotify watcher is ever closed
\* (w.Close() is deferred in this goroutine only), so the loop never ends.
WatcherError ==
  /\ werr' = TRUE
  /\ pushed' = pushed
  /\ UNCHANGED <<callVars, dirVars, events, debounce, armed, burst, hubVars, sessVars,
                 histVars>>

(***************************************************************************)
(* The broadcaster.                                                        *)
(***************************************************************************)
\* The channel operations of broadcast(): select { case ch <- struct{}{}:
\* default: } on a channel that holds len items.  The select has a default
\* branch, so it never waits; the send takes place if the buffer has room.
\* A variant of CanSend, not what the program does:
\* ch <- struct{}{} with no default branch, which waits for room.
CanSend_Blocking(len) == len < ChanCap

CanSend(len) == TRUE

\* A variant of NonBlockingSend, not what the program does:
\* a send that never takes place.
NonBlockingSend_Lost(len) == len

\* A variant of NonBlockingSend, not what the program does:
\* a send into a channel with room for every notification.
NonBlockingSend_Queue(len) == len + 1

NonBlockingSend(len) == IF len < ChanCap THEN len + 1 ELSE len

\* A variant of AllocId, not what the program does:
\* an allocator that hands out the smallest id that is not a key of b.subs.
AllocId_Reuse(m, n) == CHOOSE i \in 0..n : i \notin DOMAIN m /\ \A j \in 0..(i - 1) : j \in DOMAIN m

\* id := b.next
AllocId(m, n) == n

\* b.subs[id] = ch, with ch a new empty channel.
subscribe(m, id) == [i \in DOMAIN m \cup {id} |-> IF i = id THEN 0 ELSE m[i]]

\* A variant of unsubscribe, not what the program does:
\* an unsubscribe that deletes nothing.
unsubscribe_Keep(m, id) == m

\* delete(b.subs, id)
unsubscribe(m, id) == [i \in DOMAIN m \ {id} |-> m[i]]

\* The sessions whose initial response has been built.
BuiltPcs == {"send", "subscribe", "select", "rebuild", "resend"}

\* broadcast() takes b.mu and starts its loop over b.subs.
BroadcastLock ==
  /\ bwait > 0
  /\ mu = "free"
  /\ bwait' = bwait - 1
  /\ mu' = "broadcast"
  /\ todo' = DOMAIN subs
  /\ outcome' = {}
  /\ need' = [s \in Sessions |-> IF pc[s] \in BuiltPcs THEN rot ELSE need[s]]
  /\ pushed' = pushed
  /\ UNCHANGED <<callVars, dirVars, watchVars, subs, next, sessVars,
                 last, asOf, rfail, everSub, issued>>

\* One iteration of the loop of broadcast(), on subscription id.
BroadcastSend(id) ==
  /\ mu = "broadcast"
  /\ id \in todo
  /\ CanSend(subs[id])
  /\ subs' = [subs EXCEPT ![id] = NonBlockingSend(@)]
  /\ todo' = todo \ {id}
  /\ outcome' = outcome \cup {IF subs[id] < ChanCap THEN "sent" ELSE "dropped"}
  /\ pushed' = pushed
  /\ UNCHANGED <<callVars, dirVars, watchVars, bwait, mu, next, sessVars, histVars>>

\* The loop is over: broadcast() returns and releases b.mu.
BroadcastUnlock ==
  /\ mu = "broadcast"
  /\ todo = {}
  /\ mu' = "free"
  /\ outcome' = {}
  /\ pushed' = pushed
  /\ UNCHANGED <<callVars, dirVars, watchVars, bwait, todo, subs, next, sessVars, histVars>>

(***************************************************************************)
(* The streaming handlers FetchX509SVID, FetchX509Bundles, FetchJWTBundles. *)
(***************************************************************************)
\* Sessions that are open and have yet to subscribe.
Unsubscribed == {t \in Sessions : pc[t] \in {"build", "send", "subscribe"}}

\* The handler of a stream of kind k starts in slot s.
Start(s, k) ==
  /\ pc[s] \in {"idle", "returned"}
  /\ next + Cardinality(Unsubscribed) < MaxSubs
  /\ pc' = [pc EXCEPT ![s] = "build"]
  /\ kind' = [kind EXCEPT ![s] = k]
  /\ rd' = [rd EXCEPT ![s] = NoRead]
  /\ nread' = [nread EXCEPT ![s] = 0]
  /\ resp' = [resp EXCEPT ![s] = NoResp]
  /\ subId' = [subId EXCEPT ![s] = 0]
  /\ cancelled' = [cancelled EXCEPT ![s] = FALSE]
  /\ ret' = [ret EXCEPT ![s] = "none"]
  /\ last' = [last EXCEPT ![s] = NoPayload]
  /\ asOf' = [asOf EXCEPT ![s] = 0]
  /\ need' = [need EXCEPT ![s] = 0]
  /\ rfail' = [rfail EXCEPT ![s] = FALSE]
  /\ everSub' = [everSub EXCEPT ![s] = FALSE]
  /\ issued' = issued
  /\ pushed' = [pushed EXCEPT ![s] = 0]
  /\ UNCHANGED <<dirVars, watchVars, hubVars>>

\* A client opens a stream of kind k in slot s with a request the interceptor
\* lets through; the handler starts.
Open(s, k) == Start(s, k) /\ UNCHANGED callVars

\* A variant of AfterBuild, not what the program does:
\* a handler that returns codes.Internal on a failed rebuild as well.
AfterBuild_Fatal(p, st) ==
  CASE st = "more" -> p
    [] st = "ok" -> IF p = "build" THEN "send" ELSE "resend"
    [] st = "err" -> "returned"

\* A variant of AfterBuild, not what the program does:
\* a handler that leaves its loop on a failed rebuild.
AfterBuild_Leave(p, st) ==
  CASE st = "more" -> p
    [] st = "ok" -> IF p = "build" THEN "send" ELSE "resend"
    [] st = "err" -> IF p = "build" THEN "returned" ELSE "unsub"

\* A variant of AfterBuild, not what the program does:
\* a handler that goes on after a failed first build.
AfterBuild_Ignore(p, st) ==
  CASE st = "more" -> p
    [] st = "ok" -> IF p = "build" THEN "send" ELSE "resend"
    [] st = "err" -> IF p = "build" THEN "subscribe" ELSE "select"

\* Where the handler goes when its build ends with st: on the first build,
\* "if err != nil { return status.Errorf(codes.Internal, ...) }", in the loop,
\* "if err != nil { log.Printf(...); continue }".
AfterBuild(p, st) ==
  CASE st = "more" -> p
    [] st = "ok" -> IF p = "build" THEN "send" ELSE "resend"
    [] st = "err" -> IF p = "build" THEN "returned" ELSE "select"

\* The running build of s reads its next m files, with no write of the issuer
\* in between, and goes on as far as it can without another read.  A failed
\* initial build returns codes.Internal; a failed rebuild is logged and the
\* loop continues.
ReadStep(s, m) ==
  /\ pc[s] \in {"build", "rebuild"}
  /\ m \in 1 .. (Len(ReadOrder(kind[s])) - nread[s])
  /\ LET n2 == nread[s] + m
         now == {ReadOrder(kind[s])[i] : i \in (nread[s] + 1) .. n2}
         rd2 == [f \in FileNames |-> IF f \in now THEN files[f] ELSE rd[s][f]]
         r == Builder(kind[s], rd2, n2)
     IN /\ asOf' = [asOf EXCEPT ![s] = IF nread[s] = 0 THEN rot ELSE @]
        /\ rd' = [rd EXCEPT ![s] = IF r.st = "more" THEN rd2 ELSE NoRead]
        /\ nread' = [nread EXCEPT ![s] = IF r.st = "more" THEN n2 ELSE 0]
        /\ resp' = [resp EXCEPT ![s] = IF r.st = "ok" THEN r.resp ELSE @]
        /\ pc' = [pc EXCEPT ![s] = AfterBuild(@, r.st)]
        /\ ret' = [ret EXCEPT ![s] =
                     IF AfterBuild(pc[s], r.st) = "returned" THEN "Internal" ELSE @]
        /\ rfail' = [rfail EXCEPT ![s] =
                       IF r.st = "err" /\ pc[s] = "rebuild" THEN TRUE ELSE @]
  /\ pushed' = pushed
  /\ UNCHANGED <<callVars, dirVars, watchVars, hubVars, kind, subId, cancelled,
                 last, need, everSub, issued>>

\* stream.Send(resp).  It can fail only once the stream is broken.
Send(s, good) ==
  /\ pc[s] \in {"send", "resend"}
  /\ ~good => cancelled[s]
  /\ IF good
     THEN /\ pc' = [pc EXCEPT ![s] = IF @ = "send" THEN "subscribe" ELSE "select"]
          /\ last' = [last EXCEPT ![s] = [resp |-> resp[s], asOf |-> asOf[s]]]
          /\ rfail' = [rfail EXCEPT ![s] = FALSE]
          /\ ret' = ret
     ELSE /\ pc' = [pc EXCEPT ![s] = IF @ = "send" THEN "returned" ELSE "unsub"]
          /\ ret' = [ret EXCEPT ![s] = "sendErr"]
          /\ UNCHANGED <<last, rfail>>
  /\ resp' = [resp EXCEPT ![s] = NoResp]
  /\ pushed' = [pushed EXCEPT ![s] =
                  IF good /\ rot > 0 /\ @ < MaxPushed THEN @ + 1 ELSE @]
  /\ UNCHANGED <<callVars, dirVars, watchVars, hubVars, kind, rd, nread, subId, cancelled,
                 asOf, need, everSub, issued>>

\* id, rotated := s.bcast.subscribe(); defer s.bcast.unsubscribe(id)
Subscribe(s) ==
  /\ pc[s] = "subscribe"
  /\ mu = "free"
  /\ subId' = [subId EXCEPT ![s] = AllocId(subs, next)]
  /\ next' = next + 1
  /\ subs' = subscribe(subs, AllocId(subs, next))
  /\ pc' = [pc EXCEPT ![s] = "select"]
  /\ everSub' = [everSub EXCEPT ![s] = TRUE]
  /\ issued' = issued \cup {AllocId(subs, next)}
  /\ pushed' = pushed
  /\ UNCHANGED <<callVars, dirVars, watchVars, bwait, mu, todo, outcome, kind, rd, nread,
                 resp, cancelled, ret, last, asOf, need, rfail>>

\* select: case <-stream.Context().Done(): return nil
SelectDone(s) ==
  /\ pc[s] = "select"
  /\ cancelled[s]
  /\ pc' = [pc EXCEPT ![s] = "unsub"]
  /\ ret' = [ret EXCEPT ![s] = "nil"]
  /\ pushed' = pushed
  /\ UNCHANGED <<callVars, dirVars, watchVars, hubVars, kind, rd, nread, resp, subId,
                 cancelled, histVars>>

\* A variant of SelectRotated, not what the program does:
\* a handler that takes a notification also while a rebuilt response waits
\* to be sent, and starts the next build over it.
SelectRotated_Eager(s) ==
  /\ pc[s] \in {"select", "resend"}
  /\ subs[subId[s]] > 0
  /\ subs' = [subs EXCEPT ![subId[s]] = @ - 1]
  /\ pc' = [pc EXCEPT ![s] = "rebuild"]
  /\ pushed' = pushed
  /\ UNCHANGED <<callVars, dirVars, watchVars, bwait, mu, todo, next, outcome, kind, rd,
                 nread, resp, subId, cancelled, ret, histVars>>

\* select: case <-rotated: the handler takes the notification and rebuilds.
SelectRotated(s) ==
  /\ pc[s] = "select"
  /\ subs[subId[s]] > 0
  /\ subs' = [subs EXCEPT ![subId[s]] = @ - 1]
  /\ pc' = [pc EXCEPT ![s] = "rebuild"]
  /\ pushed' = pushed
  /\ UNCHANGED <<callVars, dirVars, watchVars, bwait, mu, todo, next, outcome, kind, rd,
                 nread, resp, subId, cancelled, ret, histVars>>

\* The deferred s.bcast.unsubscribe(id), then the handler returns.
Unsubscribe(s) ==
  /\ pc[s] = "unsub"
  /\ mu = "free"
  /\ subs' = unsubscribe(subs, subId[s])
  /\ pc' = [pc EXCEPT ![s] = "returned"]
  /\ pushed' = pushed
  /\ UNCHANGED <<callVars, dirVars, watchVars, bwait, mu, todo, next, outcome, kind, rd,
                 nread, resp, subId, cancelled, ret, histVars>>

\* The client goes away: the transport closes the stream's context.  The
\* handler looks at the context in Send and in its select only, so a client
\* that goes away at another point of the handler is one that goes away when
\* the handler next stands at one of these.
ClientDisconnect(s) ==
  /\ pc[s] \in {"send", "resend", "select"}
  /\ ~cancelled[s]
  /\ cancelled' = [cancelled EXCEPT ![s] = TRUE]
  /\ pushed' = pushed
  /\ UNCHANGED <<callVars, dirVars, watchVars, hubVars, pc, kind, rd, nread, resp, subId,
                 ret, histVars>>

(***************************************************************************)
(* subscribe() and unsubscribe() step by step: the call takes b.mu, and     *)
(* with b.mu held it changes the map and returns, which releases b.mu.     *)
(* While a handler holds b.mu, mu is "handler" and the handler stands at   *)
(* "subscribing" or "unsubbing".                                           *)
(***************************************************************************)
\* A variant of TryLock, not what the program does:
\* a Lock() that does not wait for the mutex to be free.
TryLock_Barge(m) == TRUE

\* b.mu.Lock() returns when the mutex is free.
TryLock(m) == m = "free"

InCritical(s) == pc[s] \in {"subscribing", "unsubbing"}

SubscribeLock(s) ==
  /\ pc[s] = "subscribe"
  /\ TryLock(mu)
  /\ mu' = "handler"
  /\ pc' = [pc EXCEPT ![s] = "subscribing"]
  /\ pushed' = pushed
  /\ UNCHANGED <<callVars, dirVars, watchVars, bwait, todo, subs, next, outcome, kind, rd,
                 nread, resp, subId, cancelled, ret, histVars>>

SubscribeUnlock(s) ==
  /\ pc[s] = "subscribing"
  /\ subId' = [subId EXCEPT ![s] = AllocId(subs, next)]
  /\ next' = next + 1
  /\ subs' = subscribe(subs, AllocId(subs, next))
  /\ mu' = "free"
  /\ pc' = [pc EXCEPT ![s] = "select"]
  /\ everSub' = [everSub EXCEPT ![s] = TRUE]
  /\ issued' = issued \cup {AllocId(subs, next)}
  /\ pushed' = pushed
  /\ UNCHANGED <<callVars, dirVars, watchVars, bwait, todo, outcome, kind, rd, nread,
                 resp, cancelled, ret, last, asOf, need, rfail>>

UnsubscribeLock(s) ==
  /\ pc[s] = "unsub"
  /\ TryLock(mu)
  /\ mu' = "handler"
  /\ pc' = [pc EXCEPT ![s] = "unsubbing"]
  /\ pushed' = pushed
  /\ UNCHANGED <<callVars, dirVars, watchVars, bwait, todo, subs, next, outcome, kind, rd,
                 nread, resp, subId, cancelled, ret, histVars>>

UnsubscribeUnlock(s) ==
  /\ pc[s] = "unsubbing"
  /\ subs' = unsubscribe(subs, subId[s])
  /\ mu' = "free"
  /\ pc' = [pc EXCEPT ![s] = "returned"]
  /\ pushed' = pushed
  /\ UNCHANGED <<callVars, dirVars, watchVars, bwait, todo, next, outcome, kind, rd,
                 nread, resp, subId, cancelled, ret, histVars>>

(***************************************************************************)
(* Calls through the interceptors, and the two unary handlers.             *)
(***************************************************************************)
\* The stream interceptor has rejected a call for a stream of kind k in slot
\* s: the handler does not run.
Reject(s, k) ==
  /\ pc' = [pc EXCEPT ![s] = "returned"]
  /\ kind' = [kind EXCEPT ![s] = k]
  /\ rd' = [rd EXCEPT ![s] = NoRead]
  /\ nread' = [nread EXCEPT ![s] = 0]
  /\ resp' = [resp EXCEPT ![s] = NoResp]
  /\ subId' = [subId EXCEPT ![s] = 0]
  /\ cancelled' = [cancelled EXCEPT ![s] = FALSE]
  /\ ret' = [ret EXCEPT ![s] = "InvalidArgument"]
  /\ last' = [last EXCEPT ![s] = NoPayload]
  /\ asOf' = [asOf EXCEPT ![s] = 0]
  /\ need' = [need EXCEPT ![s] = 0]
  /\ rfail' = [rfail EXCEPT ![s] = FALSE]
  /\ everSub' = [everSub EXCEPT ![s] = FALSE]
  /\ issued' = issued
  /\ pushed' = [pushed EXCEPT ![s] = 0]
  /\ UNCHANGED <<dirVars, watchVars, hubVars>>

\* A client calls a streaming operation of kind k with metadata md; the call
\* takes slot s.
StreamCall(s, k, md) ==
  /\ pc[s] \in {"idle", "returned"}
  /\ req' = md
  /\ unary' = unary
  /\ IF workloadHeaderStreamInterceptor(md) = "handler"
     THEN Start(s, k)
     ELSE Reject(s, k)

\* A variant of FetchJWTSVID, not what the program does:
\* a handler that loads the trust bundles before it gives up.
FetchJWTSVID_Reads == [code |-> "Unimplemented", resp |-> NoResp, read |-> {TBFile}]

\* The two unary handlers: what they return and the files they read.
FetchJWTSVID == [code |-> "Unimplemented", resp |-> NoResp, read |-> {}]
ValidateJWTSVID == [code |-> "Unimplemented", resp |-> NoResp, read |-> {}]

\* A client calls the unary operation op with metadata md.
UnaryCall(op, md) ==
  /\ req' = md
  /\ unary' =
       IF workloadHeaderUnaryInterceptor(md) # "handler"
       THEN [op |-> op, code |-> "InvalidArgument", resp |-> NoResp, read |-> {}]
       ELSE LET r == IF op = "FetchJWTSVID" THEN FetchJWTSVID ELSE ValidateJWTSVID
            IN [op |-> op, code |-> r.code, resp |-> r.resp, read |-> r.read]
  /\ UNCHANGED <<dirVars, watchVars, hubVars, sessVars, histVars, pushed>>

(***************************************************************************)
(* The specifications.                                                     *)
(*                                                                         *)
(* Spec: the broadcaster under two concurrent streams.  The directory is   *)
(* one of StartDirs and does not change; the directory events that trigger *)
(* the watcher are writes of other files in it, so a build sees one        *)
(* directory and is one step.                                              *)
(*                                                                         *)
(* SpecRot: one stream while the issuer rotates the four files; a build    *)
(* reads file by file and the issuer may write in between.                 *)
(*                                                                         *)
(* SpecWatch: the watcher and its timer under every kind of event, with no  *)
(* stream open (the loop of broadcast() has nothing to visit).             *)
(*                                                                         *)
(* SpecBuild: one stream on each directory of BuildDirs.                   *)
(***************************************************************************)
\* Directories the server may be started on: a good one, one whose
\* certificates.pem holds no block, one whose trust_bundles.json is no JSON.
StartDirs ==
  {InitialDir,
   [InitialDir EXCEPT ![CertFile] = PemFile(<<Junk>>)],
   [InitialDir EXCEPT ![TBFile] = BadJSON]}

\* The reads a build has left, all in one step.
ReadAll(s) == ReadStep(s, Len(ReadOrder(kind[s])) - nread[s])

Broadcast ==
  \/ BroadcastLock
  \/ \E id \in todo : BroadcastSend(id)
  \/ BroadcastUnlock

Watcher ==
  \/ WatcherEvent
  \/ TimerFire

\* The handler of slot s but for its reads.
HandlerSteps(s) ==
  \/ \E k \in Kinds : Open(s, k)
  \/ \E good \in BOOLEAN : Send(s, good)
  \/ Subscribe(s)
  \/ SelectDone(s)
  \/ SelectRotated(s)
  \/ Unsubscribe(s)
  \/ ClientDisconnect(s)

Init == files \in StartDirs /\ InitRest

Next ==
  \/ FsOther({"Write"})
  \/ Watcher
  \/ Broadcast
  \/ \E s \in Sessions : HandlerSteps(s) \/ ReadAll(s)

Spec == Init /\ [][Next]_vars

InitRot == files = InitialDir /\ InitRest

NextRot ==
  \/ \E f \in FileNames : \E c \in RotContent(f) : \E e \in WriteOps : IssuerWrite(f, c, e)
  \/ Watcher
  \/ Broadcast
  \/ HandlerSteps(1) \/ ReadStep(1, 1)

SpecRot == InitRot /\ [][NextRot]_vars

\* SpecLock: two SVID streams on InitialDir under broadcasts, with the calls
\* of subscribe() and unsubscribe() taken step by step.
NextLock ==
  \/ FsOther({"Write"})
  \/ Watcher
  \/ Broadcast
  \/ \E s \in Sessions :
       \/ Open(s, "svid")
       \/ ReadAll(s)
       \/ \E good \in BOOLEAN : Send(s, good)
       \/ SubscribeLock(s)
       \/ SubscribeUnlock(s)
       \/ SelectDone(s)
       \/ SelectRotated(s)
       \/ UnsubscribeLock(s)
       \/ UnsubscribeUnlock(s)
       \/ ClientDisconnect(s)

SpecLock == InitRot /\ [][NextLock]_vars

\* SpecErr: SpecRot with errors of the notification mechanism.
NextErr == NextRot \/ WatcherError

SpecErr == InitRot /\ [][NextErr]_vars

NextWatch ==
  \/ \E f \in FileNames : \E c \in RotContent(f) : \E e \in WriteOps : IssuerWrite(f, c, e)
  \/ \E e \in OtherOps : FsOther(e)
  \/ Watcher
  \/ BroadcastLock
  \/ BroadcastUnlock

SpecWatch == InitRot /\ [][NextWatch]_vars

\* SpecDebounce: SpecWatch with errors of the notification mechanism and the
\* fairness the runtime gives: the watcher goroutine takes an event that
\* waits, an armed timer expires, and a callback that has called broadcast()
\* gets the mutex and ends its loop.
NextDebounce == NextWatch \/ WatcherError

SpecDebounce ==
  /\ InitRot /\ [][NextDebounce]_vars
  /\ WF_vars(WatcherEvent)
  /\ WF_vars(TimerFire)
  /\ WF_vars(BroadcastLock)
  /\ WF_vars(BroadcastUnlock)

\* SpecCancel: one stream on InitialDir under broadcasts, with the fairness
\* the runtime gives.  A handler that can take a step takes it, and so does
\* broadcast(); a select with several cases ready chooses among them at
\* random, so the ready Done case is not passed over for ever; a goroutine
\* that waits for b.mu gets it.
NextCancel ==
  \/ FsOther({"Write"})
  \/ Watcher
  \/ Broadcast
  \/ HandlerSteps(1) \/ ReadAll(1)

SpecCancel ==
  /\ InitRot
  /\ [][NextCancel]_vars
  /\ WF_vars(Broadcast)
  /\ WF_vars(ReadAll(1))
  /\ WF_vars(\E good \in BOOLEAN : Send(1, good))
  /\ SF_vars(SelectDone(1))
  /\ SF_vars(Unsubscribe(1))

\* SpecApi: calls of the five operations with every metadata of Requests,
\* one stream slot, under broadcasts.
NextApi ==
  \/ \E k \in Kinds : \E md \in Requests : StreamCall(1, k, md)
  \/ \E op \in UnaryOps : \E md \in Requests : UnaryCall(op, md)
  \/ ReadAll(1)
  \/ \E good \in BOOLEAN : Send(1, good)
  \/ Subscribe(1)
  \/ SelectDone(1)
  \/ SelectRotated(1)
  \/ Unsubscribe(1)
  \/ ClientDisconnect(1)
  \/ FsOther({"Write"})
  \/ Watcher
  \/ Broadcast

SpecApi == InitRot /\ [][NextApi]_vars

\* What the issuer, or a fault, may have left in each file at start-up.
CertFiles ==
  {Absent, PemFile(<<>>), PemFile(<<Junk>>),
   PemFile(<<CertBlock("garbage")>>), PemFile(<<CertBlock("leafN")>>),
   PemFile(<<CertBlock("leafA"), CertBlock("caL")>>)}
KeyFiles ==
  {Absent, PemFile(<<Junk>>),
   PemFile(<<Pkcs8Block("pkcs8:k1")>>), PemFile(<<Pkcs8Block("garbage")>>),
   PemFile(<<Block("EC PRIVATE KEY", <<"sec1:k1">>)>>),
   PemFile(<<Block("EC PRIVATE KEY", <<"garbage">>)>>),
   PemFile(<<Block("RSA PRIVATE KEY", <<"pkcs1:r1">>)>>),
   PemFile(<<Block("RSA PRIVATE KEY", <<"garbage">>)>>),
   PemFile(<<Block("DSA PRIVATE KEY", <<"dsa">>)>>)}
CAFiles ==
  {Absent, PemFile(<<>>), PemFile(<<Junk>>), PemFile(<<CertBlock("caL")>>)}
TBFiles ==
  {AbsentJSON, BadJSON, JSONFile(ExampleDoc),
   JSONFile([d \in {"other.org"} |->
               [Keys |-> <<TrustKey("x509-svid", <<"Y2FP">>)>>]]),
   JSONFile([d \in {"other.org"} |->
               [Keys |-> <<TrustKey("x509-svid", <<"!!">>)>>]])}

BuildDirs ==
  {[f \in FileNames |->
      CASE f = CertFile -> c [] f = KeyFile -> k [] f = CAFile -> a [] f = TBFile -> t] :
     c \in CertFiles, k \in KeyFiles, a \in CAFiles, t \in TBFiles}

InitBuild == files \in BuildDirs /\ InitRest

NextBuild ==
  \/ \E k \in Kinds : Open(1, k)
  \/ ReadAll(1)
  \/ \E good \in BOOLEAN : Send(1, good)
  \/ Subscribe(1)
  \/ SelectDone(1)
  \/ Unsubscribe(1)
  \/ ClientDisconnect(1)

SpecBuild == InitBuild /\ [][NextBuild]_vars

\* SpecBundles: the two bundle streams on directories whose trust_bundles.json
\* names the local domain and another one, each with keys of several uses.
KeyLists ==
  {<<>>,
   <<TrustKey("x509-svid", <<>>)>>,
   <<TrustKey("x509-svid", <<"">>)>>,
   <<TrustKey("x509-svid", <<"Y2FP">>)>>,
   <<TrustKey("x509-svid", <<"!!">>)>>,
   <<TrustKey("tls", <<"!!">>), TrustKey("x509-svid", <<"Y2FP", "Y2FQ">>),
     TrustKey("jwt-svid", <<>>), TrustKey("x509-svid", <<"Y2FM">>)>>,
   <<TrustKey("jwt-svid", <<>>)>>,
   <<ECKey("jwt-svid", "k1")>>,
   <<RSAKey("jwt-svid", "r1"), TrustKey("x509-svid", <<"Y2FP">>), ECKey("jwt-svid", "k2")>>,
   <<[kty |-> "EC"], ECKey("sig", "k3")>>}

BundleDomains == {"example.org", "other.org"}

BundleDocs ==
  UNION {[ds -> {[Keys |-> l] : l \in KeyLists}] : ds \in SUBSET BundleDomains}

BundleDirs ==
  {[f \in FileNames |->
      CASE f = CertFile -> c [] f = KeyFile -> InitialDir[KeyFile]
        [] f = CAFile -> a [] f = TBFile -> JSONFile(t)] :
     c \in {PemFile(<<CertBlock("leafA"), CertBlock("caL")>>), PemFile(<<CertBlock("leaf2")>>),
            PemFile(<<Junk, CertBlock("leafO")>>)},
     a \in {PemFile(<<>>), PemFile(<<CertBlock("caL")>>),
            PemFile(<<CertBlock("caL"), Junk, CertBlock("caL2")>>)},
     t \in BundleDocs}

InitBundles == files \in BundleDirs /\ InitRest

NextBundles ==
  \/ \E k \in {"x509", "jwt"} : Open(1, k)
  \/ ReadAll(1)
  \/ \E good \in BOOLEAN : Send(1, good)
  \/ Subscribe(1)
  \/ SelectDone(1)
  \/ Unsubscribe(1)
  \/ ClientDisconnect(1)

SpecBundles == InitBundles /\ [][NextBundles]_vars

\* SpecPush: one SVID stream and one rewrite of certificates.pem, made while
\* the stream waits in its select with an empty channel.  The issuer writes
\* the new certificate at once, or truncates the file first and writes the
\* certificate next; other events of the same rewrite may follow.  All its
\* events come within one debounce interval: none comes after the timer has
\* expired, and the timer does not expire before the rewrite is complete and
\* the watcher has taken its write and create events.
NewCerts ==
  {PemFile(<<CertBlock("leafB")>>),
   PemFile(<<CertBlock("leafO"), CertBlock("caL")>>),
   PemFile(<<Junk, CertBlock("leaf2")>>)}
Truncated == PemFile(<<>>)

RewriteBegin ==
  /\ rot = 0
  /\ pc[1] = "select"
  /\ subs[subId[1]] = 0
  /\ \E c \in NewCerts \cup {Truncated} : \E e \in WriteOps : IssuerWrite(CertFile, c, e)

RewriteEnd ==
  /\ files[CertFile] = Truncated
  /\ events # <<>> \/ debounce = "armed"
  /\ \E c \in NewCerts : IssuerWrite(CertFile, c, {"Write"})

RewriteEvent ==
  /\ rot > 0
  /\ files[CertFile] # Truncated
  /\ debounce = "armed"
  /\ burst < MaxBurst
  /\ \E e \in WriteOps \cup OtherOps : FsOther(e)

WindowCloses ==
  /\ \A i \in 1 .. Len(events) : ~(Has(events[i], "Write") \/ Has(events[i], "Create"))
  /\ files[CertFile] # Truncated
  /\ TimerFire

NextPush ==
  \/ Open(1, "svid")
  \/ ReadAll(1)
  \/ Send(1, TRUE)
  \/ Subscribe(1)
  \/ SelectRotated(1)
  \/ RewriteBegin
  \/ RewriteEnd
  \/ RewriteEvent
  \/ WatcherEvent
  \/ WindowCloses
  \/ Broadcast

\* The issuer completes its rewrite; the watcher, the timer, the callback
\* and the handler are goroutines that run when they can.
SpecPush ==
  /\ InitRot /\ [][NextPush]_vars
  /\ WF_vars(RewriteEnd)
  /\ WF_vars(WatcherEvent)
  /\ WF_vars(WindowCloses)
  /\ WF_vars(Broadcast)
  /\ WF_vars(SelectRotated(1))
  /\ WF_vars(ReadAll(1))
  /\ WF_vars(Send(1, TRUE))

(***************************************************************************)
(* Properties of the broadcaster, checked under Spec.                      *)
(***************************************************************************)
\* The sessions that hold subscription id.
Owner(id) ==
  {s \in Sessions : /\ everSub[s]
                    /\ subId[s] = id
                    /\ pc[s] \in {"select", "rebuild", "resend", "unsub"}}

\* All there is to know of slot s.
SessionState(s) ==
  <<pc[s], kind[s], rd[s], nread[s], resp[s], subId[s], cancelled[s], ret[s],
    last[s], asOf[s], need[s], rfail[s], everSub[s], pushed[s]>>

\* The step is the iteration of the loop of broadcast() on subscription id.
Visits(id) == mu = "broadcast" /\ id \in todo /\ todo' = todo \ {id}

\* broadcast() returns in this step.
Returns == mu = "broadcast" /\ mu' = "free"

\* C2 as written: every subscription registered when broadcast() runs has a
\* notification in its channel when broadcast() returns.
C2_HoldsAtReturn ==
  [][Returns => \A id \in DOMAIN subs' : subs'[id] = 1]_vars

\* C2, amended: broadcast() visits every subscription registered when it
\* runs and returns only when it has visited them all; a visited channel
\* holds a notification right after the visit, whatever it held before, and
\* until broadcast() returns only the subscriber that owns the channel can
\* take that notification out.
C2_DeliveredOrTaken ==
  [][/\ (mu = "free" /\ mu' = "broadcast") => todo' = DOMAIN subs
     /\ mu = "broadcast" => DOMAIN subs' = DOMAIN subs
     /\ Returns => todo = {}
     /\ \A id \in DOMAIN subs :
          /\ Visits(id) => subs'[id] = 1
          /\ (mu = "broadcast" /\ id \notin todo /\ subs[id] = 1 /\ subs'[id] # 1)
               => \E s \in Owner(id) : pc[s] = "select" /\ pc'[s] = "rebuild"]_vars

\* broadcast() has visited every subscription and one of them has taken its
\* notification before broadcast() returned.
C2_Witness ==
  /\ mu = "broadcast"
  /\ todo = {}
  /\ "sent" \in outcome
  /\ \E id \in DOMAIN subs : subs[id] = 0

\* C3: a channel never holds more than one notification, and the iteration of
\* broadcast() on a full channel leaves it with its one notification and
\* changes nothing of any session.
C3_SingleSlot ==
  [][/\ \A id \in DOMAIN subs' : subs'[id] \in {0, 1}
     /\ \A id \in DOMAIN subs :
          (Visits(id) /\ subs[id] = 1)
            => /\ subs'[id] = 1
               /\ DOMAIN subs' = DOMAIN subs
               /\ UNCHANGED <<sessVars, histVars>>]_vars

\* The running broadcast() has met a full channel, which still holds one
\* notification, and its owner has not moved from its select.
C3_Witness ==
  /\ mu = "broadcast"
  /\ "dropped" \in outcome
  /\ \E id \in DOMAIN subs \ todo :
       subs[id] = 1 /\ \E s \in Owner(id) : pc[s] = "select"

\* C4: broadcast() never waits: while it holds b.mu, it can visit each
\* subscription it has left whatever the channels hold, the visit leaves a
\* notification in the channel, and once none is left it can release b.mu.
C4_NonBlocking ==
  mu = "broadcast" =>
    /\ \A id \in todo : ENABLED (BroadcastSend(id) /\ subs'[id] = 1)
    /\ todo = {} => ENABLED BroadcastUnlock

\* One broadcast() has met a full channel and has delivered to an empty one.
C4_Witness ==
  /\ mu = "broadcast"
  /\ todo = {}
  /\ outcome = {"sent", "dropped"}
  /\ Cardinality(DOMAIN subs) = 2

\* C5: every subscription of b.subs belongs to a session that has not
\* returned; a session that has returned has no subscription, so that
\* b.subs is empty when every session has ended.
C5_NoLeak ==
  /\ \A id \in DOMAIN subs : Owner(id) # {}
  /\ \A s \in Sessions :
       (pc[s] = "returned" /\ everSub[s]) => subId[s] \notin DOMAIN subs
  /\ (\A s \in Sessions : pc[s] \in {"idle", "returned"}) => DOMAIN subs = {}

\* One session has ended on a send error and one on cancellation, both after
\* they subscribed, and every subscription id of the bound has been used.
C5_Witness ==
  /\ \A s \in Sessions : pc[s] = "returned" /\ everSub[s]
  /\ \E s \in Sessions : ret[s] = "sendErr"
  /\ \E s \in Sessions : ret[s] = "nil"
  /\ next = MaxSubs

\* C10: a first build that fails makes its session return codes.Internal;
\* the session has sent no payload and has never subscribed, and the step
\* changes nothing of the directory, the watcher, the broadcaster or any
\* other session.
C10_InitialFailure ==
  [][\A s \in Sessions :
       /\ (pc[s] = "build" /\ pc'[s] # "build") =>
            IF BuildAll(kind[s], files).st = "err"
            THEN pc'[s] = "returned" /\ ret'[s] = "Internal"
            ELSE pc'[s] = "send" /\ ret'[s] = "none"
       /\ (ret[s] # "Internal" /\ ret'[s] = "Internal") =>
            /\ pc[s] = "build"
            /\ UNCHANGED <<dirVars, watchVars, hubVars>>
            /\ \A t \in Sessions \ {s} : SessionState(t)' = SessionState(t)
       /\ ret'[s] = "Internal" =>
            /\ pc'[s] = "returned"
            /\ last'[s] = NoPayload
            /\ ~everSub'[s]
            /\ \A id \in DOMAIN subs' : s \notin Owner(id)']_vars

\* The first build of one session has failed while the other session is
\* live, subscribed and served.
C10_Witness ==
  \E s, t \in Sessions :
    /\ pc[s] = "returned" /\ ret[s] = "Internal"
    /\ pc[t] = "select" /\ last[t] # NoPayload /\ subId[t] \in DOMAIN subs

(***************************************************************************)
(* Properties of the rotation path, checked under SpecRot and SpecWatch.   *)
(***************************************************************************)
\* Nothing is left that would make the session of slot s send again: the
\* watcher has handled every event, no timer is armed, no broadcast() is
\* due or running, the channel of s is empty and s waits in its select
\* with its client connected and its last rebuild sent.
Quiescent(s) ==
  /\ events = <<>>
  /\ armed = 0
  /\ bwait = 0
  /\ mu = "free"
  /\ pc[s] = "select"
  /\ ~cancelled[s]
  /\ ~rfail[s]
  /\ subs[subId[s]] = 0

\* C1, in the form of what it rules out: a session whose first response has
\* been built never comes to rest with a last response older than a
\* broadcast() issued since that build, the broadcast() between its first
\* send and its subscribe() included.
C1_RotationReachesClient ==
  \A s \in Sessions : Quiescent(s) => last[s].asOf >= need[s]

\* C6: while a burst of write-or-create events is open, one timer is armed
\* and no more; broadcast() is called by the timer that closes a burst, once,
\* in a step that handles no event, and no timer is left armed behind it.
C6_DebounceCoalescing ==
  [][/\ burst' >= 1 => (armed' = 1 /\ debounce' = "armed")
     /\ burst' = 0 => armed' = 0
     /\ bwait' > bwait =>
          /\ burst >= 1
          /\ burst' = 0
          /\ bwait' = bwait + 1
          /\ events' = events
     /\ (events' # events /\ events # <<>> /\ events' = Tail(events)) =>
          /\ bwait' <= bwait
          /\ (Has(Head(events), "Write") \/ Has(Head(events), "Create"))
               => burst' >= 1]_vars

\* Two events of one burst at the least have been handled, the second before
\* the timer of the first expired, and one timer is armed.
C6_Witness ==
  /\ burst >= 2
  /\ armed = 1
  /\ debounce = "armed"

(***************************************************************************)
(* Properties of the first build on a faulty directory, checked under      *)
(* SpecBuild.                                                              *)
(***************************************************************************)
\* The first build of the session of slot s is over / has failed: the
\* handler has returned codes.Internal, which it does from nowhere else.
FirstBuildDone(s) == pc[s] \notin {"idle", "build"}
FirstBuildFailed(s) == pc[s] = "returned" /\ ret[s] = "Internal"

\* certificates.pem is absent, holds no block, or its leaf (the first block)
\* is no certificate or has no URI SAN.
CertBad(file) ==
  \/ ~file.exists
  \/ PemBlocks(file.text) = <<>>
  \/ LET leaf == ParseCertificate(PemBlocks(file.text)[1].bytes)
     IN ~leaf.ok \/ leaf.URIs = <<>>

\* trust_bundles.json is absent or is no JSON document.
TBBad(file) == ~file.exists \/ ~file.json

CABad(file) == ~file.exists \/ PemBlocks(file.text) = <<>>

\* C8, for the two builders that read ca_certificates.pem: an absent
\* ca_certificates.pem, or one that decodes to the empty sequence, makes the
\* build fail, and no response with an empty local bundle is ever sent.
C8_CABundleRequired ==
  \A s \in Sessions :
    (FirstBuildDone(s) /\ kind[s] \in {"svid", "x509"}) =>
      /\ CABad(files[CAFile]) => FirstBuildFailed(s)
      /\ (kind[s] = "svid" /\ last[s] # NoPayload) => last[s].resp.Bundle # <<>>
      /\ (kind[s] = "x509" /\ last[s] # NoPayload) =>
           \A td \in DOMAIN last[s].resp.Bundles : last[s].resp.Bundles[td] # <<>>

\* x509.ParsePKCS8PrivateKey: a PKCS #8 structure.  The program does not call
\* it; it says which bytes of a PRIVATE KEY block are a key.
ParsePKCS8PrivateKey(der) ==
  IF Len(der) # 1 THEN [ok |-> FALSE, key |-> ""]
  ELSE CASE der[1] = "pkcs8:k1" -> [ok |-> TRUE, key |-> "k1"]
         [] der[1] = "pkcs8:k2" -> [ok |-> TRUE, key |-> "k2"]
         [] der[1] = "pkcs8:r1" -> [ok |-> TRUE, key |-> "r1"]
         [] OTHER -> [ok |-> FALSE, key |-> ""]

\* private_key.pem is absent, holds no block, or its first block is of a
\* type that is not supported or holds bytes that are no key of its type.
KeyBad(file) ==
  \/ ~file.exists
  \/ PemBlocks(file.text) = <<>>
  \/ LET block == PemBlocks(file.text)[1] IN
     CASE block.type = "PRIVATE KEY" -> ~ParsePKCS8PrivateKey(block.bytes).ok
       [] block.type = "EC PRIVATE KEY" -> ~ParseECPrivateKey(block.bytes).ok
       [] block.type = "RSA PRIVATE KEY" -> ~ParsePKCS1PrivateKey(block.bytes).ok
       [] OTHER -> TRUE

\* C9: a bad private_key.pem makes the first build of an SVID stream fail,
\* and a bundle build fails with it exactly if it fails with the key of
\* InitialDir in its place; a bad trust_bundles.json makes the first build of
\* both bundle streams fail, and an SVID build fails with it exactly if it
\* fails with the document of InitialDir in its place.
C9_FailureIsolation ==
  \A s \in Sessions : FirstBuildDone(s) =>
    /\ (kind[s] = "svid" /\ KeyBad(files[KeyFile])) => FirstBuildFailed(s)
    /\ kind[s] \in {"x509", "jwt"} =>
         (FirstBuildFailed(s) <=>
            BuildAll(kind[s], [files EXCEPT ![KeyFile] = InitialDir[KeyFile]]).st = "err")
    /\ (kind[s] \in {"x509", "jwt"} /\ TBBad(files[TBFile])) => FirstBuildFailed(s)
    /\ kind[s] = "svid" =>
         (FirstBuildFailed(s) <=>
            BuildAll(kind[s], [files EXCEPT ![TBFile] = InitialDir[TBFile]]).st = "err")

(***************************************************************************)
(* Properties of a live session, checked under SpecRot.                    *)
(***************************************************************************)
\* C11: a rebuild that fails in a live session sends nothing and changes
\* neither what the handler is to return nor the broadcaster: the session is
\* back in its select with the subscription it had; a rebuild that ends
\* otherwise has a response to send.  A session in its select whose channel
\* holds a notification can take it, after a failed rebuild as well, and
\* taking it starts a rebuild from its first read.
C11_RebuildFailureSwallowed ==
  [][\A s \in Sessions :
       /\ (pc[s] = "rebuild" /\ pc'[s] \notin {"rebuild", "resend"}) =>
            /\ pc'[s] = "select"
            /\ rfail'[s]
            /\ last'[s] = last[s] /\ pushed'[s] = pushed[s]
            /\ ret'[s] = "none"
            /\ subId'[s] = subId[s] /\ subId[s] \in DOMAIN subs'
            /\ UNCHANGED hubVars
       /\ (pc[s] = "rebuild" /\ pc'[s] = "resend") => resp'[s] # NoResp
       /\ (pc[s] = "select" /\ subs[subId[s]] > 0) => ENABLED SelectRotated(s)
       /\ (pc[s] = "select" /\ subId[s] \in DOMAIN subs'
             /\ subs'[subId[s]] < subs[subId[s]])
            => pc'[s] = "rebuild" /\ nread'[s] = 0]_vars

\* After a rebuild of its session failed, a further notification has made
\* the session rebuild again, on the subscription it had.
C11_Witness ==
  \E s \in Sessions :
    /\ rfail[s]
    /\ pc[s] = "rebuild"
    /\ last[s] # NoPayload
    /\ subId[s] \in DOMAIN subs

\* The handler of slot s leaves its code in this step: it returns, or it
\* is left with its deferred unsubscribe only.
Leaves(s) ==
  /\ pc[s] \in {"build", "send", "subscribe", "select", "rebuild", "resend"}
  /\ pc'[s] \in {"unsub", "returned"}

\* C12 as written: a handler leaves only because its select has found the
\* stream's context done, or because its first build has failed.
C12_TwoReturnsOnly ==
  [][\A s \in Sessions : Leaves(s) =>
       \/ pc[s] = "select" /\ cancelled[s] /\ ret'[s] = "nil"
       \/ pc[s] = "build" /\ ret'[s] = "Internal"]_vars

\* C12, amended: a handler leaves only because its select has found the
\* stream's context done (it returns nil), because its first build has
\* failed (it returns codes.Internal), or because stream.Send has failed on
\* the first or on a later payload (it returns the error of Send); a rebuild
\* that fails does not make it leave.
C12_ReturnCauses ==
  [][\A s \in Sessions :
       /\ Leaves(s) =>
            \/ pc[s] = "select" /\ cancelled[s] /\ ret'[s] = "nil"
            \/ pc[s] = "build" /\ ret'[s] = "Internal"
            \/ pc[s] \in {"send", "resend"} /\ ret'[s] = "sendErr"
       /\ ~Leaves(s) => ret'[s] = ret[s] \/ pc[s] \in {"idle", "returned"}
       /\ pc[s] = "rebuild" => ~Leaves(s)]_vars

\* A live session has returned the error of a failed Send of a payload it
\* had rebuilt after a write of the issuer.
C12_Witness ==
  \E s \in Sessions :
    /\ pc[s] = "returned"
    /\ ret[s] = "sendErr"
    /\ everSub[s]
    /\ last[s] # NoPayload
    /\ rot > last[s].asOf

(***************************************************************************)
(* Cancellation, checked under SpecCancel.                                 *)
(***************************************************************************)
\* The session of slot s is live: it has subscribed and has not left its loop.
Live(s) == pc[s] \in {"select", "rebuild", "resend"}

\* The session of slot s has returned after it was live, and no subscription
\* of b.subs is its own.
ReturnedUnsubscribed(s) ==
  /\ pc[s] = "returned"
  /\ everSub[s]
  /\ subId[s] \notin DOMAIN subs

\* C13 as written, its safety part: a session that has left its loop after
\* its client went away returns no error.
C13_NoError ==
  \A s \in Sessions :
    (everSub[s] /\ cancelled[s] /\ pc[s] \in {"unsub", "returned"}) => ret[s] = "nil"

\* C13, amended: a live session whose client has gone away returns and its
\* subscription is removed, a notification in its channel or not; it returns
\* nil if its select finds the context done, and the error of Send if a Send
\* of a rebuilt payload fails first.
C13_CancelledReturns ==
  /\ \A s \in Sessions : (Live(s) /\ cancelled[s]) ~> ReturnedUnsubscribed(s)
  /\ [](\A s \in Sessions :
          (everSub[s] /\ pc[s] \in {"unsub", "returned"}) =>
             /\ cancelled[s]
             /\ ret[s] \in {"nil", "sendErr"}
             /\ pc[s] = "returned" => subId[s] \notin DOMAIN subs)
  /\ [][\A s \in Sessions :
          (pc[s] = "select" /\ pc'[s] = "unsub") => ret'[s] = "nil"]_vars

\* The select of a session has found the context done while a notification
\* was in its channel; the handler is about to unsubscribe.
C13_Witness ==
  \E s \in Sessions :
    /\ pc[s] = "unsub"
    /\ ret[s] = "nil"
    /\ subs[subId[s]] = 1

(***************************************************************************)
(* The five operations behind the interceptors, checked under SpecApi.     *)
(***************************************************************************)
\* A call for slot s arrives in this step.
Arrives(s) == pc[s] \in {"idle", "returned"} /\ SessionState(s)' # SessionState(s)

\* The request does not carry the header.
HeaderAbsent(md) == ~md.ok \/ workloadHeader \notin DOMAIN md.headers

\* C14: in every state both unary operations can be called; a call that
\* reaches its handler returns codes.Unimplemented, and no call returns a
\* payload, reads a file, or changes the directory, the watcher, the
\* broadcaster and its channels, or a session.
C14_UnaryUnimplemented ==
  [][/\ \A op \in UnaryOps : \A md \in Requests : ENABLED UnaryCall(op, md)
     /\ unary' # unary =>
          /\ unary'.op \in UnaryOps
          /\ ~HeaderAbsent(req') => unary'.code = "Unimplemented"
          /\ unary'.resp = NoResp
          /\ unary'.read = {}
          /\ UNCHANGED <<dirVars, watchVars, hubVars, sessVars, histVars, pushed>>]_vars

\* A unary call has returned codes.Unimplemented while a stream is
\* subscribed with a notification in its channel and a timer is armed.
C14_Witness ==
  /\ unary.code = "Unimplemented"
  /\ armed = 1
  /\ \E id \in DOMAIN subs : subs[id] = 1

\* C15: a call whose request does not carry the header gets
\* codes.InvalidArgument and its handler does not run: a stream call has
\* read no file, sent no payload and made no subscription, a unary call has
\* read no file and has no payload, and the step changes nothing of the
\* directory, the watcher and the broadcaster.  A call whose request
\* carries the header reaches its handler.
C15_HeaderRequired ==
  [][/\ \A s \in Sessions : Arrives(s) =>
          IF HeaderAbsent(req')
          THEN /\ pc'[s] = "returned"
               /\ ret'[s] = "InvalidArgument"
               /\ rd'[s] = NoRead /\ nread'[s] = 0
               /\ last'[s] = NoPayload /\ resp'[s] = NoResp
               /\ ~everSub'[s]
               /\ UNCHANGED <<dirVars, watchVars, hubVars>>
          ELSE pc'[s] = "build" /\ ret'[s] = "none"
     /\ unary' # unary =>
          IF HeaderAbsent(req')
          THEN /\ unary'.code = "InvalidArgument"
               /\ unary'.resp = NoResp
               /\ unary'.read = {}
          ELSE unary'.code = "Unimplemented"
     /\ \A s \in Sessions :
          (ret[s] = "InvalidArgument" /\ ~Arrives(s)) => SessionState(s)' = SessionState(s)]_vars

\* A stream call has been rejected after an earlier stream of the slot had
\* subscribed, and a unary call has been rejected.
C15_Witness ==
  /\ \E s \in Sessions : pc[s] = "returned" /\ ret[s] = "InvalidArgument"
  /\ unary.code = "InvalidArgument"
  /\ next > 0

(***************************************************************************)
(* The content of the bundle responses, checked under SpecBundles, where   *)
(* the directory does not change.                                          *)
(***************************************************************************)
\* Slot s holds a successfully built response of kind k, not yet sent.
BundleBuilt(s, k) == kind[s] = k /\ pc[s] = "send"

\* The sequences of seqs, joined in order.
RECURSIVE JoinAll(_)
JoinAll(seqs) ==
  IF seqs = <<>> THEN <<>>
  ELSE JoinAll(SubSeq(seqs, 1, Len(seqs) - 1)) \o seqs[Len(seqs)]

\* The host of the first URI SAN of the leaf of certificates.pem.
LeafHost ==
  ParseCertificate(SelectSeq(files[CertFile].text, LAMBDA b : b.pem)[1].bytes).URIs[1].Host

\* The bytes of the blocks of ca_certificates.pem, in order.
CABlocks ==
  LET bl == SelectSeq(files[CAFile].text, LAMBDA b : b.pem)
  IN [i \in 1 .. Len(bl) |-> bl[i].bytes]

\* The keys of domain D of trust_bundles.json that have the given use, and
\* the x5c elements of its x509-svid keys, both in document order.
DocKeys(D, use) ==
  SelectSeq(files[TBFile].doc[D].Keys, LAMBDA k : "use" \in DOMAIN k /\ k["use"] = use)
DocX5C(D) ==
  LET ks == DocKeys(D, "x509-svid")
  IN JoinAll([i \in 1 .. Len(ks) |-> IF "x5c" \in DOMAIN ks[i] THEN ks[i]["x5c"] ELSE <<>>])

\* C16: a successfully built X.509-bundle response has the entry of the
\* local trust domain, and its value is the concatenation of the blocks of
\* ca_certificates.pem, whatever trust_bundles.json holds for that domain.
C16_LocalEntryFromCAFile ==
  \A s \in Sessions : BundleBuilt(s, "x509") =>
    /\ TDKey(LeafHost) \in DOMAIN resp[s].Bundles
    /\ resp[s].Bundles[TDKey(LeafHost)] = JoinAll(CABlocks)

\* An X.509-bundle response has been built on a directory whose
\* trust_bundles.json names the local domain with an x509-svid key that has
\* an x5c element, and whose ca_certificates.pem has two blocks.
C16_Witness ==
  \E s \in Sessions :
    /\ BundleBuilt(s, "x509")
    /\ LeafHost \in DOMAIN files[TBFile].doc
    /\ DocX5C(LeafHost) # <<>>
    /\ Len(CABlocks) = 2

\* C17: in a successfully built X.509-bundle response a domain D of
\* trust_bundles.json other than the local one has an entry if and only if
\* its x509-svid keys have an x5c element, the value is the concatenation of
\* these elements, decoded, in document order, and there is no entry but
\* these and the local one; and the build does not fail on a directory
\* where the x5c elements of the x509-svid keys of these domains decode.
C17_FederatedEntries ==
  \A s \in Sessions :
    /\ BundleBuilt(s, "x509") =>
         /\ \A D \in DOMAIN files[TBFile].doc \ {LeafHost} :
              /\ TDKey(D) \in DOMAIN resp[s].Bundles <=> DocX5C(D) # <<>>
              /\ DocX5C(D) # <<>> =>
                   resp[s].Bundles[TDKey(D)] =
                     JoinAll([i \in 1 .. Len(DocX5C(D)) |-> Base64Decode(DocX5C(D)[i]).der])
         /\ DOMAIN resp[s].Bundles \subseteq
              {TDKey(D) : D \in DOMAIN files[TBFile].doc \cup {LeafHost}}
    /\ (kind[s] = "x509" /\ FirstBuildFailed(s)) =>
         \E D \in DOMAIN files[TBFile].doc \ {LeafHost} :
           \E i \in 1 .. Len(DocX5C(D)) : ~Base64Decode(DocX5C(D)[i]).ok

\* An X.509-bundle response has been built on a directory where a domain
\* other than the local one has two x509-svid keys with three x5c elements,
\* a jwt-svid key between them and a key of another use whose x5c does not
\* decode.
C17_Witness ==
  \E s \in Sessions : \E D \in DOMAIN files[TBFile].doc \ {LeafHost} :
    /\ BundleBuilt(s, "x509")
    /\ Len(files[TBFile].doc[D].Keys) = 4
    /\ resp[s].Bundles[TDKey(D)] = <<"caO", "caP", "caL2">>

\* C18: in a successfully built JWT-bundle response a domain D of
\* trust_bundles.json has an entry if and only if it has a jwt-svid key, and
\* the keys of the entry are D's jwt-svid keys in document order: as many,
\* and each with every member the key has in the document.
C18_ExactlyJwtKeys ==
  \A s \in Sessions : BundleBuilt(s, "jwt") =>
    /\ DOMAIN resp[s].Bundles \subseteq {TDKey(D) : D \in DOMAIN files[TBFile].doc}
    /\ \A D \in DOMAIN files[TBFile].doc :
         LET want == DocKeys(D, "jwt-svid") IN
         /\ TDKey(D) \in DOMAIN resp[s].Bundles <=> want # <<>>
         /\ want # <<>> =>
              LET got == resp[s].Bundles[TDKey(D)].keys IN
              /\ Len(got) = Len(want)
              /\ \A i \in 1 .. Len(want) : \A m \in DOMAIN want[i] :
                   m \in DOMAIN got[i] /\ got[i][m] = want[i][m]

(***************************************************************************)
(* The order of the payloads of one session, checked under SpecRot.        *)
(***************************************************************************)
\* C19: a session takes a notification only in its select, with no build
\* running and no built response unsent, and takes one at a time; every
\* read of a build reads the file as it is in the directory at that moment,
\* and the write count never falls; what a session sends is the response of
\* its latest build, and the write count that build started from is not
\* lower than that of the payload sent before.
C19_SessionOrdering ==
  [][/\ rot' >= rot
     /\ \A s \in Sessions :
          /\ (pc[s] # "rebuild" /\ pc'[s] = "rebuild") =>
               /\ pc[s] = "select"
               /\ resp[s] = NoResp /\ nread[s] = 0
               /\ subs'[subId[s]] = subs[subId[s]] - 1
          /\ asOf'[s] # asOf[s] =>
               \/ pc'[s] = "build" /\ nread'[s] = 0 /\ asOf'[s] = 0
               \/ nread[s] = 0 /\ asOf'[s] = rot
          /\ \A f \in FileNames :
               rd'[s][f] # rd[s][f] => (rd'[s][f] = files[f] \/ rd'[s] = NoRead)
          /\ (pc[s] \in {"send", "resend"} /\ last'[s] # last[s]) =>
               /\ last'[s] = [resp |-> resp[s], asOf |-> asOf[s]]
               /\ last'[s].asOf >= last[s].asOf]_vars

\* Two payloads have been sent since the second write of the issuer, the
\* later of them built from the directory as it is after that write.
C19_Witness ==
  \E s \in Sessions : pushed[s] = 2 /\ last[s].asOf = 2 /\ rot = 2

(***************************************************************************)
(* One rotation, one push, checked under SpecPush.                         *)
(***************************************************************************)
\* The identity of the certificate in certificates.pem: the first URI SAN of
\* its first block.
Identity(file) ==
  URIString(ParseCertificate(SelectSeq(file.text, LAMBDA b : b.pem)[1].bytes).URIs[1])

\* C20: after the rewrite the session sends a payload, it sends no second
\* one, and the payload carries the identity of the rewritten certificate.
C20_OneRotationOnePush ==
  /\ [](pushed[1] <= 1)
  /\ [](pushed[1] = 1 =>
          /\ files[CertFile] \in NewCerts
          /\ last[1].resp.SpiffeId = Identity(files[CertFile]))
  /\ (rot > 0) ~> [](pushed[1] = 1)

\* The payload of a rewrite that truncated the file before it wrote the new
\* certificate, and whose events the watcher took as one burst, has been
\* sent, and its identity is not the one the stream started with.
C20_Witness ==
  /\ rot = 2
  /\ pushed[1] = 1
  /\ Quiescent(1)
  /\ last[1].resp.SpiffeId # Identity(InitialDir[CertFile])

(***************************************************************************)
(* Errors of the notification mechanism, checked under SpecErr and         *)
(* SpecDebounce.                                                           *)
(***************************************************************************)
\* C21: the step in which the watcher gets an error changes no session (none
\* returns, none sends), not the subscriber map, no channel, no timer and no
\* pending broadcast(); and in every state the watcher can get an error and
\* can take an event that waits, so its loop has not ended.
C21_WatcherErrorFrame ==
  [][/\ ENABLED WatcherError
     /\ events # <<>> => ENABLED WatcherEvent
     /\ werr' # werr =>
          /\ pc' = pc /\ ret' = ret
          /\ last' = last /\ pushed' = pushed
          /\ subs' = subs
          /\ bwait' = bwait /\ armed' = armed /\ debounce' = debounce
          /\ UNCHANGED <<dirVars, events, hubVars, sessVars, histVars>>]_vars

\* The watcher has logged an error and a session is live: it waits in its
\* select, subscribed, with a payload sent.
C21_Witness ==
  /\ werr
  /\ \E s \in Sessions :
       /\ pc[s] = "select" /\ ret[s] = "none"
       /\ subId[s] \in DOMAIN subs
       /\ last[s] # NoPayload

\* The event the watcher takes next is a write or a create.
WriteWaits ==
  events # <<>> /\ (Has(Head(events), "Write") \/ Has(Head(events), "Create"))

\* The watcher has nothing to do: no event waits, no timer is armed, no
\* broadcast() is due or running.
WatcherIdle == events = <<>> /\ armed = 0 /\ bwait = 0 /\ mu = "free"

\* C22 as written: once the watcher has logged an error and is idle, whatever
\* comes after is an event that occurred after the error, and broadcast() is
\* never called again.
C22_NoPushAfterError == [](werr /\ WatcherIdle => [](bwait = 0))

\* C22, amended: the watcher goes on after an error: a write or create
\* that waits after the error is taken, arms the timer, and broadcast() is
\* called.
C22_StillObserved ==
  /\ (werr /\ WriteWaits) ~> (werr /\ debounce = "armed")
  /\ (werr /\ debounce = "armed") ~> (werr /\ bwait > 0)

\* The watcher has logged an error, every write of the issuer has been made
\* and every event taken, and the timer of the last burst has expired and
\* called broadcast().
C22_Witness ==
  /\ werr
  /\ rot = MaxRot
  /\ events = <<>> /\ armed = 0
  /\ bwait > 0

(***************************************************************************)
(* The debounce state machine, checked under SpecDebounce.                 *)
(***************************************************************************)
\* C24: a write or create that waits is followed by a call of broadcast();
\* the watcher's taking an event of another kind leaves the timer as it is;
\* a timer that expires calls broadcast() once, write-or-create events have
\* been taken since the timer before it expired, and the count of these
\* starts anew; at most one timer is armed.
C24_DebounceMachine ==
  /\ WriteWaits ~> (bwait > 0)
  /\ [](armed <= 1)
  /\ [](debounce = "armed" <=> armed = 1)
  /\ [][/\ (events # <<>> /\ events' = Tail(events) /\ ~WriteWaits) =>
            UNCHANGED <<debounce, armed, burst, bwait>>
        /\ (events # <<>> /\ events' = Tail(events) /\ WriteWaits) =>
            (debounce' = "armed" /\ armed' = 1 /\ burst' >= 1 /\ bwait' = bwait)
        /\ bwait' > bwait =>
            /\ bwait' = bwait + 1
            /\ debounce = "armed" /\ debounce' = "fired" /\ armed' = 0
            /\ burst >= 1 /\ burst' = 0]_vars

\* A chmod or remove has been taken while the timer was armed, after a write
\* of the same burst, and the timer is still armed.
C24_Witness ==
  /\ debounce = "armed" /\ armed = 1
  /\ burst >= 1
  /\ events # <<>> /\ ~WriteWaits

(***************************************************************************)
(* The value of the header, checked under SpecApi.                         *)
(***************************************************************************)
\* The request carries the header with the value true.
HeaderTrue(md) ==
  /\ md.ok
  /\ workloadHeader \in DOMAIN md.headers
  /\ md.headers[workloadHeader] = <<"true">>

\* C23: the body of an operation runs only for a request that carries the
\* header with the value true; a stream call or unary call with any other
\* request gets codes.InvalidArgument.
C23_ValueTrueRequired ==
  [][/\ \A s \in Sessions : (Arrives(s) /\ ~HeaderTrue(req')) =>
          pc'[s] = "returned" /\ ret'[s] = "InvalidArgument"
     /\ (unary' # unary /\ ~HeaderTrue(req')) => unary'.code = "InvalidArgument"]_vars

(***************************************************************************)
(* The mutex of the broadcaster, checked under SpecLock.                   *)
(***************************************************************************)
\* The tasks that hold b.mu: handlers inside subscribe() or unsubscribe(),
\* and the callback inside broadcast() (task 0).
Holders == {s \in Sessions : InCritical(s)} \cup (IF mu = "broadcast" THEN {0} ELSE {})

\* C25: one task at most holds b.mu, and mu is free exactly if none does;
\* the keys of b.subs and b.next change only in a step of the task that
\* holds b.mu, and the loop of broadcast() goes over b.subs only while the
\* callback holds it; a handler that holds b.mu reads no file and sends
\* nothing, and no step of broadcast() does; subscribe() adds its own new
\* id with an empty channel and unsubscribe() removes its own id, each from
\* the map as it is at that moment.
C25_LockDiscipline ==
  [][/\ Cardinality(Holders) <= 1
     /\ (mu = "free") <=> (Holders = {})
     /\ (mu = "handler") <=> (\E s \in Sessions : InCritical(s))
     /\ (DOMAIN subs' # DOMAIN subs \/ next' # next) =>
          /\ mu = "handler"
          /\ \E s \in Sessions : InCritical(s) /\ ~InCritical(s)' /\ mu' = "free"
     /\ todo' # todo => (mu = "broadcast" \/ mu' = "broadcast")
     /\ \A s \in Sessions : InCritical(s) =>
          rd'[s] = rd[s] /\ nread'[s] = nread[s] /\ last'[s] = last[s] /\ resp'[s] = resp[s]
     /\ (mu = "broadcast" /\ (todo' # todo \/ mu' # mu)) =>
          UNCHANGED <<dirVars, sessVars, last>>
     /\ \A s \in Sessions :
          /\ (pc[s] = "subscribing" /\ pc'[s] # pc[s]) =>
               /\ subId'[s] \notin DOMAIN subs
               /\ subs' = [i \in DOMAIN subs \cup {subId'[s]} |->
                             IF i \in DOMAIN subs THEN subs[i] ELSE 0]
          /\ (pc[s] = "unsubbing" /\ pc'[s] # pc[s]) =>
               subs' = [i \in DOMAIN subs \ {subId[s]} |-> subs[i]]]_vars

\* A handler is inside subscribe() with b.mu held, the other handler waits
\* for b.mu at its subscribe() or unsubscribe(), and a callback waits for it
\* in broadcast().
C25_Witness ==
  /\ mu = "handler"
  /\ bwait > 0
  /\ \E s, t \in Sessions : pc[s] = "subscribing" /\ pc[t] \in {"subscribe", "unsub"}

(***************************************************************************)
(* The outcomes of the key decoder, checked under SpecBuild.               *)
(***************************************************************************)
\* The kind of failure an error of loadPrivateKeyPKCS8DER stands for.
ErrorClass(err) ==
  CASE err = "read" -> "IOError"
    [] err \in {"parse EC private key", "parse RSA private key", "no PEM block"} -> "ParseError"
    [] err = "unsupported PEM block type" -> "UnsupportedFormat"
    [] OTHER -> "none"

\* The bytes of a block of one of the three supported types are a key of
\* that type.
KeyBytesOk(block) ==
  CASE block.type = "PRIVATE KEY" -> ParsePKCS8PrivateKey(block.bytes).ok
    [] block.type = "EC PRIVATE KEY" -> ParseECPrivateKey(block.bytes).ok
    [] block.type = "RSA PRIVATE KEY" -> ParsePKCS1PrivateKey(block.bytes).ok
    [] OTHER -> FALSE

\* C26: when an SVID build has applied loadPrivateKeyPKCS8DER, it has failed
\* with IOError on an unreadable file, with UnsupportedFormat on a first
\* block of a type other than the three supported ones, and with ParseError
\* on a first block of a supported type whose bytes are no key of that type;
\* in each of these cases the build has failed and nothing has been sent.
C26_KeyErrorOutcomes ==
  \A s \in Sessions :
    (kind[s] = "svid" /\ FirstBuildDone(s) /\ ~CertBad(files[CertFile])) =>
      LET file == files[KeyFile]
          r == loadPrivateKeyPKCS8DER(file)
          blocks == SelectSeq(file.text, LAMBDA b : b.pem)
          failed == ~r.ok /\ FirstBuildFailed(s) /\ last[s] = NoPayload
      IN /\ ~file.exists => (failed /\ ErrorClass(r.err) = "IOError")
         /\ (file.exists /\ blocks # <<>>) =>
              IF blocks[1].type \notin {"PRIVATE KEY", "EC PRIVATE KEY", "RSA PRIVATE KEY"}
              THEN failed /\ ErrorClass(r.err) = "UnsupportedFormat"
              ELSE ~KeyBytesOk(blocks[1]) => (failed /\ ErrorClass(r.err) = "ParseError")

(***************************************************************************)
(* The files of one payload, checked under SpecRot.                        *)
(***************************************************************************)
\* The rotation a certificate chain and a key belong to: 0 for those of
\* InitialDir, 1 for those the issuer writes.
CertVersion(chain) == IF chain[1] = "leafA" THEN 0 ELSE 1
KeyVersion(key) == IF key = <<"pkcs8:k1">> THEN 0 ELSE 1

\* C27: the certificate chain and the private key of an SVID payload are of
\* the same rotation; stated for the payloads of builds that began on the
\* directory as it was before the issuer's first write, so that two
\* rotations can meet in a payload only through writes made while the build
\* was reading.
C27_SameVersion ==
  \A s \in Sessions :
    (kind[s] = "svid" /\ last[s] # NoPayload /\ last[s].asOf = 0) =>
      CertVersion(last[s].resp.X509Svid) = KeyVersion(last[s].resp.X509SvidKey)

(***************************************************************************)
(* C28: subscription ids.                                                  *)
(***************************************************************************)
\* The handler of s has subscribed and not yet unsubscribed.
Subscribed(s) == everSub[s] /\ pc[s] # "returned"

\* C28: subscribe() returns an id that no earlier subscribe() has returned,
\* and changes no other subscription; the handlers that are subscribed hold
\* ids different from one another, each a key of b.subs; unsubscribe() of a
\* session removes that session's id and nothing else, and leaves the
\* channel of every other subscribed session as it was.
C28_UniqueIds ==
  /\ [](\A s \in Sessions : Subscribed(s) =>
          /\ subId[s] \in DOMAIN subs
          /\ subId[s] \in issued
          /\ \A t \in Sessions \ {s} : Subscribed(t) => subId[t] # subId[s])
  /\ [][\A s \in Sessions :
          /\ (pc[s] = "subscribing" /\ pc'[s] # pc[s]) =>
               /\ subId'[s] \notin issued
               /\ \A i \in DOMAIN subs : i \in DOMAIN subs' /\ subs'[i] = subs[i]
          /\ (pc[s] = "unsubbing" /\ pc'[s] # pc[s]) =>
               /\ DOMAIN subs' = DOMAIN subs \ {subId[s]}
               /\ \A t \in Sessions \ {s} : Subscribed(t) =>
                    /\ subId[t] \in DOMAIN subs'
                    /\ subs'[subId[t]] = subs[subId[t]]]_vars

\* One handler has subscribed with id 0 and unsubscribed; the other holds
\* id 1, returned by a later or concurrent subscribe(), and is still
\* subscribed with its channel in b.subs.
C28_Witness ==
  /\ issued = {0, 1}
  /\ DOMAIN subs = {1}
  /\ \E s \in Sessions :
       /\ pc[s] = "returned" /\ everSub[s] /\ subId[s] = 0
       /\ \E t \in Sessions \ {s} : Subscribed(t) /\ subId[t] = 1

=============================================================================
